---- MODULE Spec2Model ----
(***************************************************************************)
(* Model of sdk/rust/lib.rs: five configuration records, each resolved     *)
(* from optional constructor arguments and the process environment, their  *)
(* validators, and the AITimesMachinesSDK facade that composes them.       *)
(***************************************************************************)
EXTENDS Integers, Sequences, FiniteSets, TLC

\* ------------------------------------------------------------------ bounds

\* How many variables of an environment may differ from the base environment
\* that sets every variable.
MaxDeviations == 1

\* How many variables may differ from the environment an instance was built in.
MaxEnvChanges == 1

\* ------------------------------------------------- Option, Result, OsString

\* Option<T>
None == [some |-> FALSE]
Some(x) == [some |-> TRUE, v |-> x]

\* Result<T, E>
Ok(x) == [ok |-> TRUE, v |-> x]
Err(e) == [ok |-> FALSE, e |-> e]

\* Result<(), String>::Ok(())
OkUnit == [ok |-> TRUE]

\* An OsString that is valid Unicode, holding the text s.
OsStr(s) == [unicode |-> TRUE, s |-> s]

\* An OsString that is not valid Unicode (on Unix, bytes that are not UTF-8);
\* s shows its bytes.  It is not empty.
NonUnicode == [unicode |-> FALSE, s |-> "<ff>"]

\* A variant that treats an empty override as no override.
unwrap_or_else_skip_empty(opt, d) == IF opt.some /\ opt.v # "" THEN opt.v ELSE d

\* Option<String>::unwrap_or_else(f), d being what f() returns.
unwrap_or_else(opt, d) == IF opt.some THEN opt.v ELSE d

\* Result<String, VarError>::unwrap_or_default()
unwrap_or_default(r) == IF r.ok THEN r.v ELSE ""

\* str::is_empty
is_empty(s) == s = ""

\* Result::is_ok
is_ok(r) == r.ok

\* -------------------------------------------------------------- environment

VarNames ==
  { "AI_API_KEY", "VECTOR_STORE_API_KEY", "VECTOR_STORE_ENV", "WEB3_RPC_URL",
    "WEB3_PRIVATE_KEY", "MESSAGING_TOKEN", "MESSAGING_CHANNEL", "DATABASE_URL",
    "S3_BUCKET", "AWS_REGION" }

\* The value each variable holds in the base environment that sets them all.
BaseVal(name) ==
  CASE name = "AI_API_KEY"           -> "sk-ai"
    [] name = "VECTOR_STORE_API_KEY" -> "vs-key"
    [] name = "VECTOR_STORE_ENV"     -> "us-west1-gcp"
    [] name = "WEB3_RPC_URL"         -> "https://rpc.example"
    [] name = "WEB3_PRIVATE_KEY"     -> "0xabc"
    [] name = "MESSAGING_TOKEN"      -> "xoxb-token"
    [] name = "MESSAGING_CHANNEL"    -> "#general"
    [] name = "DATABASE_URL"         -> "postgres://db"
    [] name = "S3_BUCKET"            -> "my-bucket"
    [] name = "AWS_REGION"           -> "eu-west-1"

\* What a variable of the process environment can be: unset, set to the empty
\* string, set to text, set to something that is not valid Unicode.
EnvVals(name) == { None, Some(OsStr("")), Some(OsStr(BaseVal(name))), Some(NonUnicode) }

AllUnset == [name \in VarNames |-> None]
AllSet == [name \in VarNames |-> Some(OsStr(BaseVal(name)))]

\* The number of variables on which two environments differ.
Diff(e1, e2) == Cardinality({name \in VarNames : e1[name] # e2[name]})

\* The environments the model draws from: the one that sets nothing, and those
\* within MaxDeviations variables of the one that sets everything.
BoundedEnvs ==
  {AllUnset} \cup
  UNION { { [name \in VarNames |-> IF name \in D THEN f[name] ELSE AllSet[name]] :
            f \in {g \in [D -> UNION {EnvVals(n) : n \in D}] :
                      \A n \in D : g[n] \in EnvVals(n)} } :
          D \in {X \in SUBSET VarNames : Cardinality(X) <= MaxDeviations} }

VARIABLES
  env,    \* the process environment: variable name -> Option<OsString>
  obj,    \* the instance under consideration (ty names its type), or NoObj
  call,   \* the constructor call that built obj, with its arguments
  snap,   \* the environment as it was when obj was built
  res,    \* what the last validate() / validate_all() on obj returned
  calls   \* how many times obj has been validated: 0, 1, or 2 for twice or more

vars == <<env, obj, call, snap, res, calls>>

NoObj == [ty |-> "none"]
NoCall == [fn |-> "none"]
NoRes == [op |-> "none"]

\* std::env::var(name): Err(NotPresent) if the variable is unset,
\* Err(NotUnicode) if its value is not valid Unicode.
env_var(name) ==
  IF ~env[name].some THEN Err("NotPresent")
  ELSE IF ~env[name].v.unicode THEN Err("NotUnicode")
  ELSE Ok(env[name].v.s)

\* ------------------------------------------------------------ constructors

\* AIProviderConfig::new
AIProviderConfig_new(provider, api_key, model) ==
  [ ty       |-> "AIProviderConfig",
    provider |-> unwrap_or_else(provider, "openai"),
    api_key  |-> unwrap_or_else(api_key, unwrap_or_default(env_var("AI_API_KEY"))),
    model    |-> unwrap_or_else(model, "gpt-4") ]

\* VectorStoreConfig::new
VectorStoreConfig_new(provider, api_key, environment, index_name) ==
  [ ty          |-> "VectorStoreConfig",
    provider    |-> unwrap_or_else(provider, "pinecone"),
    api_key     |-> unwrap_or_else(api_key, unwrap_or_default(env_var("VECTOR_STORE_API_KEY"))),
    environment |-> unwrap_or_else(environment, unwrap_or_default(env_var("VECTOR_STORE_ENV"))),
    index_name  |-> unwrap_or_else(index_name, "default-index") ]

\* A variant that reads the two Web3 variables the wrong way round.
Web3Config_new_swapped(chain, rpc_url, private_key, network) ==
  [ ty          |-> "Web3Config",
    chain       |-> unwrap_or_else(chain, "ethereum"),
    rpc_url     |-> unwrap_or_else(rpc_url, unwrap_or_default(env_var("WEB3_PRIVATE_KEY"))),
    private_key |-> unwrap_or_else(private_key, unwrap_or_default(env_var("WEB3_RPC_URL"))),
    network     |-> unwrap_or_else(network, "mainnet") ]

\* Web3Config::new
Web3Config_new(chain, rpc_url, private_key, network) ==
  [ ty          |-> "Web3Config",
    chain       |-> unwrap_or_else(chain, "ethereum"),
    rpc_url     |-> unwrap_or_else(rpc_url, unwrap_or_default(env_var("WEB3_RPC_URL"))),
    private_key |-> unwrap_or_else(private_key, unwrap_or_default(env_var("WEB3_PRIVATE_KEY"))),
    network     |-> unwrap_or_else(network, "mainnet") ]

\* MessagingConfig::new
MessagingConfig_new(provider, token, channel) ==
  [ ty       |-> "MessagingConfig",
    provider |-> unwrap_or_else(provider, "slack"),
    token    |-> unwrap_or_else(token, unwrap_or_default(env_var("MESSAGING_TOKEN"))),
    channel  |-> unwrap_or_else(channel, unwrap_or_default(env_var("MESSAGING_CHANNEL"))) ]

\* A variant that gives region a literal default.
DataStorageConfig_new_region_default(storage_type, connection_string, bucket, region) ==
  [ ty                |-> "DataStorageConfig",
    storage_type      |-> unwrap_or_else(storage_type, "postgres"),
    connection_string |-> unwrap_or_else(connection_string,
                                         unwrap_or_default(env_var("DATABASE_URL"))),
    bucket            |-> unwrap_or_else(bucket, unwrap_or_default(env_var("S3_BUCKET"))),
    region            |-> unwrap_or_else(region,
                            IF env_var("AWS_REGION").ok THEN env_var("AWS_REGION").v
                            ELSE "us-east-1") ]

\* DataStorageConfig::new
DataStorageConfig_new(storage_type, connection_string, bucket, region) ==
  [ ty                |-> "DataStorageConfig",
    storage_type      |-> unwrap_or_else(storage_type, "postgres"),
    connection_string |-> unwrap_or_else(connection_string,
                                         unwrap_or_default(env_var("DATABASE_URL"))),
    bucket            |-> unwrap_or_else(bucket, unwrap_or_default(env_var("S3_BUCKET"))),
    region            |-> unwrap_or_else(region, unwrap_or_default(env_var("AWS_REGION"))) ]

\* The struct literal AITimesMachinesSDK { ai, vector_store, web3, messaging, data_storage }
AITimesMachinesSDK_literal(ai, vector_store, web3, messaging, data_storage) ==
  [ ty           |-> "AITimesMachinesSDK",
    ai           |-> ai,
    vector_store |-> vector_store,
    web3         |-> web3,
    messaging    |-> messaging,
    data_storage |-> data_storage ]

\* A variant whose data storage is S3.
AITimesMachinesSDK_new_s3 ==
  AITimesMachinesSDK_literal(
    AIProviderConfig_new(None, None, None),
    VectorStoreConfig_new(None, None, None, None),
    Web3Config_new(None, None, None, None),
    MessagingConfig_new(None, None, None),
    DataStorageConfig_new(Some("s3"), None, None, None))

\* AITimesMachinesSDK::new (and Default::default, which calls it)
AITimesMachinesSDK_new ==
  AITimesMachinesSDK_literal(
    AIProviderConfig_new(None, None, None),
    VectorStoreConfig_new(None, None, None, None),
    Web3Config_new(None, None, None, None),
    MessagingConfig_new(None, None, None),
    DataStorageConfig_new(None, None, None, None))

\* -------------------------------------------------------------- validators

\* A variant that looks the variable up again instead of reading the field.
AIProviderConfig_validate_lazy(c) ==
  IF is_empty(unwrap_or_default(env_var("AI_API_KEY")))
  THEN Err("AI_API_KEY not configured. Set via environment or constructor.")
  ELSE OkUnit

\* AIProviderConfig::validate
AIProviderConfig_validate(c) ==
  IF is_empty(c.api_key)
  THEN Err("AI_API_KEY not configured. Set via environment or constructor.")
  ELSE OkUnit

\* VectorStoreConfig::validate
VectorStoreConfig_validate(c) ==
  IF is_empty(c.api_key) THEN Err("VECTOR_STORE_API_KEY not configured.") ELSE OkUnit

\* A variant that also requires the private key.
Web3Config_validate_private_key(c) ==
  IF is_empty(c.rpc_url) \/ is_empty(c.private_key)
  THEN Err("WEB3_RPC_URL not configured.")
  ELSE OkUnit

\* Web3Config::validate
Web3Config_validate(c) ==
  IF is_empty(c.rpc_url) THEN Err("WEB3_RPC_URL not configured.") ELSE OkUnit

\* MessagingConfig::validate
MessagingConfig_validate(c) ==
  IF is_empty(c.token) THEN Err("MESSAGING_TOKEN not configured.") ELSE OkUnit

\* A variant that requires the bucket whatever the storage type.
DataStorageConfig_validate_any_bucket(c) ==
  IF c.storage_type = "postgres" /\ is_empty(c.connection_string)
  THEN Err("DATABASE_URL not configured for Postgres.")
  ELSE IF is_empty(c.bucket)
  THEN Err("S3_BUCKET not configured for S3 storage.")
  ELSE OkUnit

\* A variant that looks the variables up again instead of reading the fields.
DataStorageConfig_validate_lazy(c) ==
  IF c.storage_type = "postgres" /\ is_empty(unwrap_or_default(env_var("DATABASE_URL")))
  THEN Err("DATABASE_URL not configured for Postgres.")
  ELSE IF c.storage_type = "s3" /\ is_empty(unwrap_or_default(env_var("S3_BUCKET")))
  THEN Err("S3_BUCKET not configured for S3 storage.")
  ELSE OkUnit

\* DataStorageConfig::validate
DataStorageConfig_validate(c) ==
  IF c.storage_type = "postgres" /\ is_empty(c.connection_string)
  THEN Err("DATABASE_URL not configured for Postgres.")
  ELSE IF c.storage_type = "s3" /\ is_empty(c.bucket)
  THEN Err("S3_BUCKET not configured for S3 storage.")
  ELSE OkUnit

\* A variant that leaves the data storage out.
validate_all_skip_storage(s) ==
  /\ is_ok(AIProviderConfig_validate(s.ai))
  /\ is_ok(VectorStoreConfig_validate(s.vector_store))
  /\ is_ok(Web3Config_validate(s.web3))
  /\ is_ok(MessagingConfig_validate(s.messaging))

\* A variant that leaves Web3 out.
validate_all_skip_web3(s) ==
  /\ is_ok(AIProviderConfig_validate(s.ai))
  /\ is_ok(VectorStoreConfig_validate(s.vector_store))
  /\ is_ok(MessagingConfig_validate(s.messaging))
  /\ is_ok(DataStorageConfig_validate(s.data_storage))

\* AITimesMachinesSDK::validate_all
validate_all(s) ==
  /\ is_ok(AIProviderConfig_validate(s.ai))
  /\ is_ok(VectorStoreConfig_validate(s.vector_store))
  /\ is_ok(Web3Config_validate(s.web3))
  /\ is_ok(MessagingConfig_validate(s.messaging))
  /\ is_ok(DataStorageConfig_validate(s.data_storage))

\* ------------------------------------------------------------------ inputs

\* The override arguments a caller passes for a field.
Overrides == { None, Some(""), Some("custom") }

\* The override arguments a caller passes for DataStorageConfig's storage_type.
StorageTypes == { None, Some("postgres"), Some("s3"), Some("ipfs"), Some("redis"), Some("") }

\* The override arguments of the leaves a caller assembles a facade from.
RequiredOverrides == { None, Some("") }
AssembledStorageTypes == { None, Some("s3"), Some("ipfs") }

\* ----------------------------------------------------------------- actions

\* Records what built obj and the environment it was built in.
Built(o, fn, args) ==
  /\ obj = NoObj
  /\ obj' = o
  /\ call' = [fn |-> fn, args |-> args]
  /\ snap' = env
  /\ res' = NoRes
  /\ calls' = 0
  /\ UNCHANGED env

NewAIProviderConfig(provider, api_key, model) ==
  Built(AIProviderConfig_new(provider, api_key, model), "AIProviderConfig::new",
        [provider |-> provider, api_key |-> api_key, model |-> model])

NewVectorStoreConfig(provider, api_key, environment, index_name) ==
  Built(VectorStoreConfig_new(provider, api_key, environment, index_name),
        "VectorStoreConfig::new",
        [provider |-> provider, api_key |-> api_key, environment |-> environment,
         index_name |-> index_name])

NewWeb3Config(chain, rpc_url, private_key, network) ==
  Built(Web3Config_new(chain, rpc_url, private_key, network), "Web3Config::new",
        [chain |-> chain, rpc_url |-> rpc_url, private_key |-> private_key,
         network |-> network])

NewMessagingConfig(provider, token, channel) ==
  Built(MessagingConfig_new(provider, token, channel), "MessagingConfig::new",
        [provider |-> provider, token |-> token, channel |-> channel])

NewDataStorageConfig(storage_type, connection_string, bucket, region) ==
  Built(DataStorageConfig_new(storage_type, connection_string, bucket, region),
        "DataStorageConfig::new",
        [storage_type |-> storage_type, connection_string |-> connection_string,
         bucket |-> bucket, region |-> region])

\* A caller builds one leaf, with any overrides.
ConstructAI == \E p, k, m \in Overrides : NewAIProviderConfig(p, k, m)
ConstructVectorStore == \E p, k, e, i \in Overrides : NewVectorStoreConfig(p, k, e, i)
ConstructWeb3 == \E c, u, k, n \in Overrides : NewWeb3Config(c, u, k, n)
ConstructMessaging == \E p, t, c \in Overrides : NewMessagingConfig(p, t, c)
ConstructDataStorage ==
  \E t \in StorageTypes : \E c, b, r \in Overrides : NewDataStorageConfig(t, c, b, r)

\* A caller builds one leaf the way the facade does, with no override.
DefaultAI == NewAIProviderConfig(None, None, None)
DefaultVectorStore == NewVectorStoreConfig(None, None, None, None)
DefaultWeb3 == NewWeb3Config(None, None, None, None)
DefaultMessaging == NewMessagingConfig(None, None, None)
DefaultDataStorage == NewDataStorageConfig(None, None, None, None)

\* AITimesMachinesSDK::new()
NewSDK == Built(AITimesMachinesSDK_new, "AITimesMachinesSDK::new", <<>>)

\* A caller builds the five leaves and assembles the facade by hand.
AssembleSDK ==
  \E k, v, u, t, c, b \in RequiredOverrides : \E st \in AssembledStorageTypes :
    Built(AITimesMachinesSDK_literal(
            AIProviderConfig_new(None, k, None),
            VectorStoreConfig_new(None, v, None, None),
            Web3Config_new(None, u, None, None),
            MessagingConfig_new(None, t, None),
            DataStorageConfig_new(st, c, b, None)),
          "AITimesMachinesSDK{..}", <<k, v, u, t, st, c, b>>)

\* One call of validate() or validate_all() on obj, r being what it returns.
Validated(ty, r) ==
  /\ obj.ty = ty
  /\ res' = r
  /\ calls' = IF calls = 0 THEN 1 ELSE 2
  /\ UNCHANGED <<env, obj, call, snap>>

ValidateAI ==
  Validated("AIProviderConfig", [op |-> "validate", r |-> AIProviderConfig_validate(obj)])
ValidateVectorStore ==
  Validated("VectorStoreConfig", [op |-> "validate", r |-> VectorStoreConfig_validate(obj)])
ValidateWeb3 ==
  Validated("Web3Config", [op |-> "validate", r |-> Web3Config_validate(obj)])
ValidateMessaging ==
  Validated("MessagingConfig", [op |-> "validate", r |-> MessagingConfig_validate(obj)])
ValidateDataStorage ==
  Validated("DataStorageConfig", [op |-> "validate", r |-> DataStorageConfig_validate(obj)])
ValidateAll ==
  Validated("AITimesMachinesSDK", [op |-> "validate_all", b |-> validate_all(obj)])

\* The process environment changes after obj was built: std::env::set_var.
SetVar ==
  \E name \in VarNames : \E value \in EnvVals(name) \ {None} :
    /\ obj # NoObj
    /\ env[name] # value
    /\ env' = [env EXCEPT ![name] = value]
    /\ Diff(snap, env') <= MaxEnvChanges
    /\ UNCHANGED <<obj, call, snap, res, calls>>

\* The process environment changes after obj was built: std::env::remove_var.
RemoveVar ==
  \E name \in VarNames :
    /\ obj # NoObj
    /\ env[name] # None
    /\ env' = [env EXCEPT ![name] = None]
    /\ Diff(snap, env') <= MaxEnvChanges
    /\ UNCHANGED <<obj, call, snap, res, calls>>

\* ---------------------------------------------------------- specifications

\* Nothing has been built yet.
Built0 ==
  /\ obj = NoObj
  /\ call = NoCall
  /\ snap = env
  /\ res = NoRes
  /\ calls = 0

Init == env \in BoundedEnvs /\ Built0

\* The leaves: construction with overrides and validation, in an environment
\* that stays as it was.
Next ==
  \/ ConstructAI
  \/ ConstructVectorStore
  \/ ConstructWeb3
  \/ ConstructMessaging
  \/ ConstructDataStorage
  \/ ValidateAI
  \/ ValidateVectorStore
  \/ ValidateWeb3
  \/ ValidateMessaging
  \/ ValidateDataStorage

Spec == Init /\ [][Next]_vars

\* The facade: built by new() or assembled by hand, and validated, in an
\* environment that stays as it was.
NextFacade ==
  \/ NewSDK
  \/ AssembleSDK
  \/ ValidateAll

SpecFacade == Init /\ [][NextFacade]_vars

InitEnv == env \in {AllUnset, AllSet} /\ Built0

\* Construction from the environment alone, the environment changing between
\* construction and validation.
NextEnv ==
  \/ DefaultAI
  \/ DefaultVectorStore
  \/ DefaultWeb3
  \/ DefaultMessaging
  \/ DefaultDataStorage
  \/ NewSDK
  \/ SetVar
  \/ RemoveVar
  \/ ValidateAI
  \/ ValidateVectorStore
  \/ ValidateWeb3
  \/ ValidateMessaging
  \/ ValidateDataStorage
  \/ ValidateAll

SpecEnv == InitEnv /\ [][NextEnv]_vars

\* ------------------------------------------------------------------ claims

LeafConstructors ==
  { "AIProviderConfig::new", "VectorStoreConfig::new", "Web3Config::new",
    "MessagingConfig::new", "DataStorageConfig::new" }

\* <<constructor, field, environment variable>>, as the specification pairs them.
EnvBacked ==
  { <<"AIProviderConfig::new", "api_key", "AI_API_KEY">>,
    <<"VectorStoreConfig::new", "api_key", "VECTOR_STORE_API_KEY">>,
    <<"VectorStoreConfig::new", "environment", "VECTOR_STORE_ENV">>,
    <<"Web3Config::new", "rpc_url", "WEB3_RPC_URL">>,
    <<"Web3Config::new", "private_key", "WEB3_PRIVATE_KEY">>,
    <<"MessagingConfig::new", "token", "MESSAGING_TOKEN">>,
    <<"MessagingConfig::new", "channel", "MESSAGING_CHANNEL">>,
    <<"DataStorageConfig::new", "connection_string", "DATABASE_URL">>,
    <<"DataStorageConfig::new", "bucket", "S3_BUCKET">>,
    <<"DataStorageConfig::new", "region", "AWS_REGION">> }

\* <<constructor, field, literal default>>, as the specification documents them.
LiteralBacked ==
  { <<"AIProviderConfig::new", "provider", "openai">>,
    <<"AIProviderConfig::new", "model", "gpt-4">>,
    <<"VectorStoreConfig::new", "provider", "pinecone">>,
    <<"VectorStoreConfig::new", "index_name", "default-index">>,
    <<"Web3Config::new", "chain", "ethereum">>,
    <<"Web3Config::new", "network", "mainnet">>,
    <<"MessagingConfig::new", "provider", "slack">>,
    <<"DataStorageConfig::new", "storage_type", "postgres">> }

\* <<type, required field, the variable its failure message names>>
RequiredField ==
  { <<"AIProviderConfig", "api_key", "AI_API_KEY">>,
    <<"VectorStoreConfig", "api_key", "VECTOR_STORE_API_KEY">>,
    <<"Web3Config", "rpc_url", "WEB3_RPC_URL">>,
    <<"MessagingConfig", "token", "MESSAGING_TOKEN">> }

\* The variables the specification's table marks as failing validation.
TableRequired ==
  { "AI_API_KEY", "VECTOR_STORE_API_KEY", "WEB3_RPC_URL", "MESSAGING_TOKEN",
    "DATABASE_URL", "S3_BUCKET" }

\* The variables a facade built by new() needs.
FacadeRequired == TableRequired \ {"S3_BUCKET"}

\* The text msg contains the text name.
Mentions(msg, name) ==
  \E i \in 1..Len(msg) : i + Len(name) - 1 <= Len(msg) /\ SubSeq(msg, i, i + Len(name) - 1) = name

\* The message of a validator's result, empty on success.
Message(r) == IF r.ok THEN "" ELSE r.e

\* A variable of the environment obj was built in is set to non-empty text.
SetToText(name) == snap[name].some /\ snap[name].v.unicode /\ snap[name].v.s # ""

\* What a variable of the environment obj was built in resolves to.
Resolved(name) ==
  IF snap[name].some /\ snap[name].v.unicode THEN snap[name].v.s ELSE ""

\* C1: a leaf constructor given an explicit override Some(v) for a field sets
\* that field to exactly v, whatever the environment holds and also when v is
\* the empty string.
C1_OverrideWins ==
  call.fn \in LeafConstructors =>
    \A f \in DOMAIN call.args : call.args[f].some => obj[f] = call.args[f].v

\* An empty override of connection_string wins over a set DATABASE_URL.
C1_Witness ==
  /\ call.fn = "DataStorageConfig::new"
  /\ call.args.connection_string = Some("")
  /\ call.args.region = Some("custom")
  /\ snap["DATABASE_URL"] = Some(OsStr("postgres://db"))
  /\ snap["AWS_REGION"] = Some(OsStr("eu-west-1"))
  /\ obj.connection_string = ""
  /\ obj.region = "custom"

\* C2 as stated: a field given no override whose environment variable is set
\* holds exactly that variable's value.
C2_AsStated ==
  call.fn \in LeafConstructors =>
    \A p \in EnvBacked :
      (p[1] = call.fn /\ ~call.args[p[2]].some /\ snap[p[3]].some)
        => OsStr(obj[p[2]]) = snap[p[3]].v

\* C2: a field given no override whose environment variable is set to valid
\* Unicode holds exactly that text; set to a value that is not valid Unicode,
\* the field is the empty string.
C2_EnvWhenUnicode ==
  call.fn \in LeafConstructors =>
    \A p \in EnvBacked :
      (p[1] = call.fn /\ ~call.args[p[2]].some /\ snap[p[3]].some)
        => obj[p[2]] = (IF snap[p[3]].v.unicode THEN snap[p[3]].v.s ELSE "")

\* VectorStoreConfig takes both its variables from the environment.
C2_Witness ==
  /\ call.fn = "VectorStoreConfig::new"
  /\ call.args.api_key = None
  /\ call.args.environment = None
  /\ snap["VECTOR_STORE_API_KEY"] = Some(OsStr("vs-key"))
  /\ snap["VECTOR_STORE_ENV"] = Some(OsStr("us-west1-gcp"))
  /\ obj.api_key = "vs-key"
  /\ obj.environment = "us-west1-gcp"

\* C3: a field given no override holds its documented literal default when it is
\* a tag field, and the empty string when it is a secret or connection field
\* whose environment variable is unset.
C3_Defaults ==
  call.fn \in LeafConstructors =>
    /\ \A p \in LiteralBacked :
         (p[1] = call.fn /\ ~call.args[p[2]].some) => obj[p[2]] = p[3]
    /\ \A p \in EnvBacked :
         (p[1] = call.fn /\ ~call.args[p[2]].some /\ ~snap[p[3]].some) => obj[p[2]] = ""

\* DataStorageConfig built with no override where nothing is set.
C3_Witness ==
  /\ call.fn = "DataStorageConfig::new"
  /\ \A f \in DOMAIN call.args : call.args[f] = None
  /\ snap = AllUnset
  /\ obj.storage_type = "postgres"
  /\ obj.connection_string = ""
  /\ obj.bucket = ""
  /\ obj.region = ""

\* C4: validate() of the AI, vector store, Web3 and messaging configs fails
\* exactly when the one required field is empty, whatever the other fields
\* hold, and the failure message names the variable to set.
C4_RequiredField ==
  res.op = "validate" =>
    \A p \in RequiredField :
      p[1] = obj.ty =>
        /\ res.r.ok <=> obj[p[2]] # ""
        /\ ~res.r.ok => Mentions(res.r.e, p[3])

\* AIProviderConfig built with no arguments and AI_API_KEY unset fails.
C4_Witness ==
  /\ call.fn = "AIProviderConfig::new"
  /\ \A f \in DOMAIN call.args : call.args[f] = None
  /\ ~snap["AI_API_KEY"].some
  /\ res.op = "validate"
  /\ ~res.r.ok
  /\ Mentions(res.r.e, "AI_API_KEY")

\* C5: DataStorageConfig::validate() fails naming DATABASE_URL exactly when
\* storage_type is "postgres" and connection_string is empty, fails naming
\* S3_BUCKET exactly when storage_type is "s3" and bucket is empty, and
\* succeeds otherwise.
C5_StorageBranches ==
  (res.op = "validate" /\ obj.ty = "DataStorageConfig") =>
    LET pg == obj.storage_type = "postgres" /\ obj.connection_string = ""
        s3 == obj.storage_type = "s3" /\ obj.bucket = ""
    IN /\ (~res.r.ok /\ Mentions(Message(res.r), "DATABASE_URL")) <=> pg
       /\ (~res.r.ok /\ Mentions(Message(res.r), "S3_BUCKET")) <=> s3
       /\ res.r.ok <=> (~pg /\ ~s3)

\* An s3 config with nothing set: the empty connection_string does not matter,
\* the empty bucket does.
C5_Witness ==
  /\ obj.ty = "DataStorageConfig"
  /\ obj.storage_type = "s3"
  /\ obj.connection_string = ""
  /\ obj.bucket = ""
  /\ res.op = "validate"
  /\ ~res.r.ok
  /\ Mentions(res.r.e, "S3_BUCKET")
  /\ ~Mentions(res.r.e, "DATABASE_URL")

\* C6: validate_all() of a facade, built by new() or assembled by hand, is true
\* exactly when all five leaf validators succeed.
C6_AllFive ==
  (res.op = "validate_all" /\ obj.ty = "AITimesMachinesSDK") =>
    res.b = ( /\ AIProviderConfig_validate(obj.ai).ok
              /\ VectorStoreConfig_validate(obj.vector_store).ok
              /\ Web3Config_validate(obj.web3).ok
              /\ MessagingConfig_validate(obj.messaging).ok
              /\ DataStorageConfig_validate(obj.data_storage).ok )

\* A hand-assembled facade whose last leaf alone fails.
C6_Witness ==
  /\ call.fn = "AITimesMachinesSDK{..}"
  /\ obj.ai.api_key # ""
  /\ obj.vector_store.api_key # ""
  /\ obj.web3.rpc_url # ""
  /\ obj.messaging.token # ""
  /\ obj.data_storage.storage_type = "s3"
  /\ obj.data_storage.bucket = ""
  /\ res.op = "validate_all"
  /\ res.b = FALSE

\* C7 as stated: a facade built by new() while every required variable is set
\* to a non-empty value validates.
C7_AsStated ==
  (call.fn = "AITimesMachinesSDK::new" /\ res.op = "validate_all") =>
    ((\A name \in TableRequired : snap[name].some /\ snap[name].v.s # "") => res.b = TRUE)

\* C7: a facade built by new() while AI_API_KEY, VECTOR_STORE_API_KEY,
\* WEB3_RPC_URL, MESSAGING_TOKEN and DATABASE_URL are set to non-empty, valid
\* Unicode values validates.
C7_AllSetValidates ==
  (call.fn = "AITimesMachinesSDK::new" /\ res.op = "validate_all") =>
    ((\A name \in FacadeRequired : SetToText(name)) => res.b = TRUE)

\* Everything set, the facade validates.
C7_Witness ==
  /\ call.fn = "AITimesMachinesSDK::new"
  /\ snap = AllSet
  /\ res.op = "validate_all"
  /\ res.b = TRUE

\* C8 as stated: a facade built by new() while exactly one of the six variables
\* of the table is missing and the others are set does not validate.
C8_AsStated ==
  (call.fn = "AITimesMachinesSDK::new" /\ res.op = "validate_all") =>
    \A missing \in TableRequired :
      ( /\ ~snap[missing].some
        /\ \A name \in TableRequired \ {missing} : snap[name].some )
        => res.b = FALSE

\* C8: a facade built by new() while one of AI_API_KEY, VECTOR_STORE_API_KEY,
\* WEB3_RPC_URL, MESSAGING_TOKEN, DATABASE_URL is missing does not validate;
\* with S3_BUCKET missing and those five set to non-empty valid Unicode it
\* does validate.
C8_OneMissing ==
  (call.fn = "AITimesMachinesSDK::new" /\ res.op = "validate_all") =>
    /\ (\E missing \in FacadeRequired : ~snap[missing].some) => res.b = FALSE
    /\ (~snap["S3_BUCKET"].some /\ \A name \in FacadeRequired : SetToText(name))
         => res.b = TRUE

\* Only WEB3_RPC_URL is missing, and the facade does not validate.
C8_Witness ==
  /\ call.fn = "AITimesMachinesSDK::new"
  /\ ~snap["WEB3_RPC_URL"].some
  /\ \A name \in VarNames \ {"WEB3_RPC_URL"} : SetToText(name)
  /\ res.op = "validate_all"
  /\ res.b = FALSE

\* C9: a call of validate() or validate_all() leaves the instance and the
\* environment as they were, and returns what the previous call on the same
\* instance returned.
C9_Pure ==
  [][ (res' # NoRes /\ (res' # res \/ calls' # calls))
        => (obj' = obj /\ env' = env /\ (res # NoRes => res' = res)) ]_vars

\* A data storage config validated twice, the environment having changed since
\* it was built.
C9_Witness ==
  /\ obj.ty = "DataStorageConfig"
  /\ calls = 2
  /\ snap = AllSet
  /\ ~env["DATABASE_URL"].some
  /\ res.op = "validate"
  /\ res.r.ok

\* C10: the fields of an instance built from the environment, and what
\* validate() or validate_all() returns for it, are those of the environment at
\* construction, whatever the environment has become since.
C10_Eager ==
  /\ call.fn \in LeafConstructors =>
       \A p \in EnvBacked : p[1] = call.fn => obj[p[2]] = Resolved(p[3])
  /\ call.fn = "AITimesMachinesSDK::new" =>
       /\ obj.ai.api_key = Resolved("AI_API_KEY")
       /\ obj.vector_store.api_key = Resolved("VECTOR_STORE_API_KEY")
       /\ obj.vector_store.environment = Resolved("VECTOR_STORE_ENV")
       /\ obj.web3.rpc_url = Resolved("WEB3_RPC_URL")
       /\ obj.web3.private_key = Resolved("WEB3_PRIVATE_KEY")
       /\ obj.messaging.token = Resolved("MESSAGING_TOKEN")
       /\ obj.messaging.channel = Resolved("MESSAGING_CHANNEL")
       /\ obj.data_storage.connection_string = Resolved("DATABASE_URL")
       /\ obj.data_storage.bucket = Resolved("S3_BUCKET")
       /\ obj.data_storage.region = Resolved("AWS_REGION")
  /\ res.op = "validate" =>
       /\ \A p \in RequiredField : p[1] = obj.ty => (res.r.ok <=> Resolved(p[3]) # "")
       /\ obj.ty = "DataStorageConfig" => (res.r.ok <=> Resolved("DATABASE_URL") # "")
  /\ res.op = "validate_all" =>
       (res.b <=> \A name \in FacadeRequired : Resolved(name) # "")

\* A facade built with everything set still validates after WEB3_RPC_URL is
\* removed.
C10_Witness ==
  /\ call.fn = "AITimesMachinesSDK::new"
  /\ snap = AllSet
  /\ ~env["WEB3_RPC_URL"].some
  /\ obj.web3.rpc_url = "https://rpc.example"
  /\ res.op = "validate_all"
  /\ res.b = TRUE

====
